---- MODULE Spec2Model ----
(***************************************************************************)
(* Model of synapse/handlers/admin.py: AdminHandler.validate_admin_token,  *)
(* AdminHandler.set_permission_for_token and AdminHandler.export_user_data *)
(* with the ExfiltrationWriter it drives.                                  *)
(*                                                                         *)
(* The storage layer, the visibility filter and the writer are outside the *)
(* handler: their answers are inputs, drawn with \E at the point where the *)
(* handler awaits them, and every call the handler makes is recorded.      *)
(***************************************************************************)
EXTENDS Integers, Sequences, FiniteSets, TLC

VARIABLES
    call,                     \* the last token-handler call: inputs, store calls, outcome
    pc,                       \* position of export_user_data
    rooms,                    \* local `rooms`
    rooms_user_has_been_in,   \* local `rooms_user_has_been_in`
    index,                    \* 1-based position in `rooms` of the for loop
    from_key,                 \* local `from_key`
    to_key,                   \* local `to_key`
    written_events,           \* local `written_events`
    event_to_unseen_prevs,    \* local dict, in insertion order
    unseen_to_child_events,   \* local dict
    extremities,              \* what the `extremities` generator has yet to yield
    trace,                    \* every external call made by the run, in order
    ret,                      \* what export_user_data returned
    store_events              \* the events the store has returned so far

vars == << call, pc, rooms, rooms_user_has_been_in, index, from_key, to_key,
           written_events, event_to_unseen_prevs, unseen_to_child_events,
           extremities, trace, ret, store_events >>

exportVars == << pc, rooms, rooms_user_has_been_in, index, from_key, to_key,
                 written_events, event_to_unseen_prevs, unseen_to_child_events,
                 extremities, trace, ret, store_events >>

None == "None"

(***************************************************************************)
(* Bounds                                                                  *)
(***************************************************************************)
\* longest Authorization header value, in symbols
MaxHeaderLen == 4
\* number of events the store holds; an event's id is its stream ordering
MaxEvents == 2

(***************************************************************************)
(* Token authorisation                                                     *)
(***************************************************************************)

\* The symbols header values are made of. "Bearer" stands for those six
\* bytes, "x80" for one byte outside ASCII.
Symbols == {"Bearer", " ", "t", "x80"}

RECURSIVE SeqsUpTo(_, _)
SeqsUpTo(S, n) ==
    IF n = 0 THEN {<< >>}
    ELSE LET shorter == SeqsUpTo(S, n - 1)
         IN  shorter \cup {Append(s, x) : s \in {t \in shorter : Len(t) = n - 1}, x \in S}

HeaderValues == SeqsUpTo(Symbols, MaxHeaderLen)

\* What getRawHeaders(b"Authorization") can return: no header, one header,
\* or several (a second header next to any first one).
HeaderLists ==
    {<< >>} \cup {<<h>> : h \in HeaderValues}
            \cup {<<h, g>> : h \in HeaderValues, g \in {<<"Bearer", " ", "t">>, << >>}}

Actions == {"GET", "PUT", "POST", "DELETE"}
Methods == Actions
PermissionCodes == {"c1", "c2"}
TokenStates == {"EXISTS", "NON_EXISTANT"}

\* TokenRules as the store returns them
TokenRules ==
    [token_state : TokenStates,
     permissions : [PermissionCodes -> [Actions -> BOOLEAN]]]

\* bytes.split(b" "): the parts between single spaces, empty parts kept
RECURSIVE Split(_)
Split(s) ==
    IF \A i \in 1..Len(s) : s[i] # " " THEN <<s>>
    ELSE LET i == CHOOSE j \in 1..Len(s) :
                      s[j] = " " /\ \A k \in 1..(j - 1) : s[k] # " "
         IN  <<SubSeq(s, 1, i - 1)>> \o Split(SubSeq(s, i + 1, Len(s)))

\* bytes.decode("ascii") succeeds
IsAscii(s) == \A i \in 1..Len(s) : s[i] # "x80"

Returns(v) == [raised |-> FALSE, value |-> v]
Raises(e)  == [raised |-> TRUE, value |-> e]

GetPermissionsCall(token, rules) ==
    [op |-> "get_permissions_for_token", token |-> token, result |-> rules]

\* The permission check of validate_admin_token, lines 68-73
PermissionCheck_AnyAction(rules, code, action) ==
    IF \E a \in Actions : rules.permissions[code][a] = TRUE
    THEN Returns("True")
    ELSE Raises("Forbidden")

PermissionCheck(rules, code, action) ==
    IF rules.permissions[code][action] = TRUE
    THEN Returns("True")
    ELSE Raises("Forbidden")

\* The header checks of validate_admin_token, lines 49-61: the error raised,
\* or None when the header carries a token
HeaderError_AnyScheme(auth_headers) ==
    IF Len(auth_headers) = 0 THEN "MissingClientTokenError"
    ELSE IF Len(auth_headers) > 1 THEN "MissingClientTokenError"
    ELSE LET parts == Split(auth_headers[1])
         IN  IF Len(parts) = 2
             THEN None
             ELSE "MissingClientTokenError"

HeaderError(auth_headers) ==
    IF Len(auth_headers) = 0 THEN "MissingClientTokenError"
    ELSE IF Len(auth_headers) > 1 THEN "MissingClientTokenError"
    ELSE LET parts == Split(auth_headers[1])
         IN  IF parts[1] = <<"Bearer">> /\ Len(parts) = 2
             THEN None
             ELSE "MissingClientTokenError"

\* validate_admin_token(servlet, request, raise_if_missing), where `rules` is
\* what the store answers if it is asked: the calls made and the outcome.
validate_admin_token_HeadersFirst(permission_code, request, raise_if_missing, rules) ==
    IF HeaderError(request.headers) # None
    THEN [store_calls |-> << >>, outcome |-> Raises(HeaderError(request.headers))]
    ELSE IF permission_code = None
    THEN [store_calls |-> << >>, outcome |-> Raises("Forbidden")]
    ELSE LET token == Split(request.headers[1])[2]
             calls == <<GetPermissionsCall(token, rules)>>
         IN  IF ~IsAscii(token)
             THEN [store_calls |-> << >>, outcome |-> Raises("UnicodeDecodeError")]
             ELSE IF ~raise_if_missing /\ rules.token_state = "NON_EXISTANT"
             THEN [store_calls |-> calls, outcome |-> Returns("False")]
             ELSE [store_calls |-> calls,
                   outcome |-> PermissionCheck(rules, permission_code, request.method)]

validate_admin_token_MissingRaises(permission_code, request, raise_if_missing, rules) ==
    IF permission_code = None
    THEN [store_calls |-> << >>, outcome |-> Raises("Forbidden")]
    ELSE IF HeaderError(request.headers) # None
    THEN [store_calls |-> << >>, outcome |-> Raises(HeaderError(request.headers))]
    ELSE LET token == Split(request.headers[1])[2]
             calls == <<GetPermissionsCall(token, rules)>>
         IN  IF ~IsAscii(token)
             THEN [store_calls |-> << >>, outcome |-> Raises("UnicodeDecodeError")]
             ELSE [store_calls |-> calls,
                   outcome |-> PermissionCheck(rules, permission_code, request.method)]

validate_admin_token(permission_code, request, raise_if_missing, rules) ==
    IF permission_code = None
    THEN [store_calls |-> << >>, outcome |-> Raises("Forbidden")]
    ELSE IF HeaderError(request.headers) # None
    THEN [store_calls |-> << >>, outcome |-> Raises(HeaderError(request.headers))]
    ELSE LET token == Split(request.headers[1])[2]
             calls == <<GetPermissionsCall(token, rules)>>
         IN  IF ~IsAscii(token)
             THEN [store_calls |-> << >>, outcome |-> Raises("UnicodeDecodeError")]
             ELSE IF ~raise_if_missing /\ rules.token_state = "NON_EXISTANT"
             THEN [store_calls |-> calls, outcome |-> Returns("False")]
             ELSE [store_calls |-> calls,
                   outcome |-> PermissionCheck(rules, permission_code, request.method)]

\* Inputs of set_permission_for_token
AdminTokens == {"tok1", "tok2"}
Endpoints == {"ep1", "ep2"}
ActionArgs == Actions \cup {"PATCH", "get"}
StoreResults == {"True", "False"}

SetPermissionCall(admin_token, endpoint, action, allowed, result) ==
    [op |-> "set_permission_for_token", admin_token |-> admin_token,
     endpoint |-> endpoint, action |-> action, allowed |-> allowed,
     result |-> result]

\* set_permission_for_token(admin_token, endpoint, action, allowed), where
\* `result` is what the store answers if it is asked.
set_permission_for_token_CheckAfter(admin_token, endpoint, action, allowed, result) ==
    IF action \notin {"GET", "PUT", "POST", "DELETE"}
    THEN [store_calls |-> <<SetPermissionCall(admin_token, endpoint, action, allowed, result)>>,
          outcome |-> Raises("ValueError")]
    ELSE [store_calls |-> <<SetPermissionCall(admin_token, endpoint, action, allowed, result)>>,
          outcome |-> Returns(result)]

set_permission_for_token(admin_token, endpoint, action, allowed, result) ==
    IF action \notin {"GET", "PUT", "POST", "DELETE"}
    THEN [store_calls |-> << >>, outcome |-> Raises("ValueError")]
    ELSE [store_calls |-> <<SetPermissionCall(admin_token, endpoint, action, allowed, result)>>,
          outcome |-> Returns(result)]

NoCall == [op |-> "none"]

\* The answers the store can give to this call: drawn only if it is asked
RulesAnswers(code, request, raise_if_missing) ==
    LET any == CHOOSE r \in TokenRules : TRUE
    IN  IF validate_admin_token(code, request, raise_if_missing, any).store_calls = << >>
        THEN {any}
        ELSE TokenRules

ValidateAdminToken ==
    /\ call.op = "none"
    /\ \E code \in PermissionCodes \cup {None}, headers \in HeaderLists,
          method \in Methods, raise_if_missing \in BOOLEAN :
          LET request == [headers |-> headers, method |-> method]
          IN  \E rules \in RulesAnswers(code, request, raise_if_missing) :
                LET r == validate_admin_token(code, request, raise_if_missing, rules)
                IN  call' = [op |-> "validate_admin_token", permission_code |-> code,
                             request |-> request, raise_if_missing |-> raise_if_missing,
                             store_calls |-> r.store_calls, outcome |-> r.outcome]
    /\ UNCHANGED exportVars

SetPermissionForToken ==
    /\ call.op = "none"
    /\ \E admin_token \in AdminTokens, endpoint \in Endpoints, action \in ActionArgs,
          allowed \in BOOLEAN, result \in StoreResults :
          LET r == set_permission_for_token(admin_token, endpoint, action, allowed, result)
          IN  call' = [op |-> "set_permission_for_token", admin_token |-> admin_token,
                       endpoint |-> endpoint, action |-> action, allowed |-> allowed,
                       store_calls |-> r.store_calls, outcome |-> r.outcome]
    /\ UNCHANGED exportVars

(***************************************************************************)
(* export_user_data                                                        *)
(***************************************************************************)

RoomIds == {"r1", "r2"}
Memberships == {"join", "leave", "ban", "invite"}
EventIds == 1..MaxEvents
\* what prev_event_ids() can name. An id the store never returns during the
\* run stands for an event the server does not hold.
PrevIds == EventIds
\* `limit=100` of paginate_room_events, scaled to the model's event count
PageLimit == 2
FinishedValues == {"R1", "R2"}

\* the membership event of a room, and the records the store returns
MembershipEventId(room_id) == <<"m", room_id>>

\* the stream ordering of a membership event: the newest event came after it
RecordStreamOrderings == {MaxEvents - 1}

MembershipRecords ==
    {[room_id |-> r, membership |-> m, event_id |-> MembershipEventId(r),
      stream_ordering |-> so] :
        r \in RoomIds, m \in Memberships, so \in RecordStreamOrderings}

\* what get_rooms_for_user_where_membership_is can return: one record per
\* room, "r1" being the name of the room returned first
MembershipLists ==
    {<< >>} \cup {<<a>> : a \in {x \in MembershipRecords : x.room_id = "r1"}}
            \cup {<<a, b>> : a \in {x \in MembershipRecords : x.room_id = "r1"},
                             b \in {x \in MembershipRecords : x.room_id = "r2"}}

\* str(RoomStreamToken(topological, stream)); `topological` is << >> for None
RoomStreamTokenStr(topological, stream) ==
    IF topological = << >> THEN <<"s", stream>>
    ELSE <<"t", topological[1], stream>>

\* the stream position a token string names
StreamOf(key) == key[Len(key)]

\* event.internal_metadata.after
After(event_id) == RoomStreamTokenStr(<< >>, event_id)

NoEvent == [room_id |-> None, prev_event_ids |-> {}]

\* an external call: what was called, for which room, with what, and the answer
Call(op, room_id, arg, result) ==
    [op |-> op, room_id |-> room_id, arg |-> arg, result |-> result]

\* ---- dict[str, set[str]] in insertion order: a sequence of <<key, value>>
DictKeys(d) == {d[i][1] : i \in 1..Len(d)}

DictGet(d, k) == d[CHOOSE i \in 1..Len(d) : d[i][1] = k][2]

DictSet(d, k, v) ==
    IF k \in DictKeys(d)
    THEN [i \in 1..Len(d) |-> IF d[i][1] = k THEN <<k, v>> ELSE d[i]]
    ELSE Append(d, <<k, v>>)

\* ---- lines 279-295: the tracking state after one delivered event.
\* unseen_to_child_events is kept as the set of <<unseen, child>> pairs: a
\* key is present exactly when it has a child, as in the code, where a key
\* is created by setdefault(...).add and removed whole by pop.
ProcessEvent_NoPop(st, event_id, prev_event_ids) ==
    LET unseen_events == prev_event_ids \ st.written_events
        e2u == IF unseen_events # {}
               THEN DictSet(st.event_to_unseen_prevs, event_id, unseen_events)
               ELSE st.event_to_unseen_prevs
        u2c == st.unseen_to_child_events \cup {<<u, event_id>> : u \in unseen_events}
    IN  [written_events |-> st.written_events \cup {event_id},
         event_to_unseen_prevs |-> e2u,
         unseen_to_child_events |-> u2c,
         key_error |-> st.key_error]

ProcessEvent_PopWithoutDiscard(st, event_id, prev_event_ids) ==
    LET unseen_events == prev_event_ids \ st.written_events
        e2u == IF unseen_events # {}
               THEN DictSet(st.event_to_unseen_prevs, event_id, unseen_events)
               ELSE st.event_to_unseen_prevs
        u2c == st.unseen_to_child_events \cup {<<u, event_id>> : u \in unseen_events}
    IN  [written_events |-> st.written_events \cup {event_id},
         event_to_unseen_prevs |-> e2u,
         unseen_to_child_events |-> {q \in u2c : q[1] # event_id},
         key_error |-> st.key_error]

ProcessEvent_NoWrittenCheck(st, event_id, prev_event_ids) ==
    LET unseen_events == prev_event_ids
        e2u1 == IF unseen_events # {}
                THEN DictSet(st.event_to_unseen_prevs, event_id, unseen_events)
                ELSE st.event_to_unseen_prevs
        u2c1 == st.unseen_to_child_events \cup {<<u, event_id>> : u \in unseen_events}
        children == {p[2] : p \in {q \in u2c1 : q[1] = event_id}}
        u2c2 == {q \in u2c1 : q[1] # event_id}
        e2u2 == [i \in 1..Len(e2u1) |->
                    IF e2u1[i][1] \in children
                    THEN <<e2u1[i][1], e2u1[i][2] \ {event_id}>>
                    ELSE e2u1[i]]
    IN  [written_events |-> st.written_events \cup {event_id},
         event_to_unseen_prevs |-> e2u2,
         unseen_to_child_events |-> u2c2,
         key_error |-> st.key_error \/ ~(children \subseteq DictKeys(e2u1))]

ProcessEvent(st, event_id, prev_event_ids) ==
    LET unseen_events == prev_event_ids \ st.written_events
        \* lines 283-288
        e2u1 == IF unseen_events # {}
                THEN DictSet(st.event_to_unseen_prevs, event_id, unseen_events)
                ELSE st.event_to_unseen_prevs
        u2c1 == st.unseen_to_child_events \cup {<<u, event_id>> : u \in unseen_events}
        \* lines 292-293
        children == {p[2] : p \in {q \in u2c1 : q[1] = event_id}}
        u2c2 == {q \in u2c1 : q[1] # event_id}
        e2u2 == [i \in 1..Len(e2u1) |->
                    IF e2u1[i][1] \in children
                    THEN <<e2u1[i][1], e2u1[i][2] \ {event_id}>>
                    ELSE e2u1[i]]
    IN  [written_events |-> st.written_events \cup {event_id},
         event_to_unseen_prevs |-> e2u2,
         unseen_to_child_events |-> u2c2,
         \* event_to_unseen_prevs[child_id] of a child that is no key
         key_error |-> st.key_error \/ ~(children \subseteq DictKeys(e2u1))]

\* the for loop of lines 279-295 over the delivered events, in order
RECURSIVE UpdateTracking(_, _, _)
UpdateTracking(st, events, prevs) ==
    IF events = << >> THEN st
    ELSE UpdateTracking(ProcessEvent(st, Head(events), prevs[Head(events)]),
                        Tail(events), prevs)

\* lines 302-306: the keys of event_to_unseen_prevs with a non-empty value,
\* in the dict's order
Extremities(e2u) ==
    LET keep(entry) == entry[2] # {}
        kept == SelectSeq(e2u, keep)
    IN  [i \in 1..Len(kept) |-> kept[i][1]]

\* ---- the store's answers to paginate_room_events

\* strictly increasing sequences of at most n ids drawn from S
RECURSIVE Ascending(_, _)
Ascending(S, n) ==
    IF n = 0 THEN {<< >>}
    ELSE LET shorter == Ascending(S, n - 1)
         IN  shorter \cup
             UNION {{Append(s, x) : x \in {y \in S : Len(s) = 0 \/ s[Len(s)] < y}} :
                        s \in {t \in shorter : Len(t) = n - 1}}

\* the ids reachable from e along prev_event_ids of the events in `evs`
RECURSIVE Ancestors(_, _, _)
Ancestors(evs, S, n) ==
    IF n = 0 THEN S
    ELSE Ancestors(evs,
                   S \cup UNION {evs[x].prev_event_ids : x \in S \cap EventIds},
                   n - 1)

IsDag(evs) ==
    \A e \in EventIds : e \notin Ancestors(evs, evs[e].prev_event_ids, MaxEvents)

\* the non-empty pages the store can return for the room between the two
\* keys: events after `from_key`, up to `to_key`, that are not known to be
\* of another room, in stream order, at most PageLimit of them
PageIds(room_id, from, to) ==
    {s \in Ascending({e \in EventIds : /\ \/ store_events[e] = NoEvent
                                           \/ store_events[e].room_id = room_id
                                        /\ e > StreamOf(from)
                                        /\ e <= StreamOf(to)}, PageLimit) :
        s # << >>}

\* the prev_event_ids the events of a page can have: those of an event
\* returned before stay what they were
PagePrevs(page) ==
    {f \in [{page[i] : i \in 1..Len(page)} -> SUBSET PrevIds] :
        \A e \in DOMAIN f :
            store_events[e] # NoEvent => f[e] = store_events[e].prev_event_ids}

\* the subsequences of a page: what filter_events_for_client can return
RECURSIVE SubSeqs(_)
SubSeqs(s) ==
    IF s = << >> THEN {<< >>}
    ELSE LET rest == SubSeqs(Tail(s))
         IN  rest \cup {<<Head(s)>> \o t : t \in rest}

\* get_state_for_event(event_id)
StateAt(event_id) == <<"state_at", event_id>>

Room == rooms[index]

\* `from_key` and `to_key` before line 244 has run
NoKey == << >>

\* export_user_data has neither returned nor raised
NotReturned == [raised |-> FALSE, value |-> "not returned"]

ExportInit ==
    /\ pc = "start"
    /\ rooms = << >>
    /\ rooms_user_has_been_in = {}
    /\ index = 1
    /\ from_key = NoKey
    /\ to_key = NoKey
    /\ written_events = {}
    /\ event_to_unseen_prevs = << >>
    /\ unseen_to_child_events = {}
    /\ extremities = << >>
    /\ trace = << >>
    /\ ret = NotReturned
    /\ store_events = [e \in EventIds |-> NoEvent]

Init ==
    /\ call = NoCall
    /\ ExportInit

AuthNext ==
    \/ ValidateAdminToken
    \/ SetPermissionForToken

AuthSpec == Init /\ [][AuthNext]_vars

\* ---- the steps of export_user_data

\* get_event(event_id, allow_none=True) returning None
NoInvite == [event_id |-> << >>, unsigned |-> << >>]

trackingVars == << written_events, event_to_unseen_prevs, unseen_to_child_events >>

\* lines 195-208: the two fetches before the loop
StartExport ==
    /\ pc = "start"
    /\ \E rs \in MembershipLists, been \in SUBSET RoomIds :
          /\ rooms' = rs
          /\ rooms_user_has_been_in' = been
          /\ trace' = trace \o
                <<Call("get_rooms_for_user_where_membership_is", None, None, rs),
                  Call("get_rooms_user_has_been_in", None, None, been)>>
    /\ pc' = "room"
    /\ UNCHANGED << call, index, from_key, to_key, trackingVars, extremities,
                    ret, store_events >>

\* lines 217-220: the user forgot the room
SkipForgotten_AfterInvite ==
    /\ pc = "room"
    /\ index <= Len(rooms)
    /\ IF Room.membership = "invite" /\ Room.room_id \notin rooms_user_has_been_in
       THEN trace' = trace \o
               <<Call("get_event", Room.room_id, Room.event_id, NoInvite),
                 Call("write_invite", Room.room_id, NoInvite, None),
                 Call("did_forget", Room.room_id, None, TRUE)>>
       ELSE trace' = Append(trace, Call("did_forget", Room.room_id, None, TRUE))
    /\ index' = index + 1
    /\ UNCHANGED << call, pc, rooms, rooms_user_has_been_in, from_key, to_key,
                    trackingVars, extremities, ret, store_events >>

SkipForgotten ==
    /\ pc = "room"
    /\ index <= Len(rooms)
    /\ trace' = Append(trace, Call("did_forget", Room.room_id, None, TRUE))
    /\ index' = index + 1
    /\ UNCHANGED << call, pc, rooms, rooms_user_has_been_in, from_key, to_key,
                    trackingVars, extremities, ret, store_events >>

\* what get_event(event_id, allow_none=True) can return for a membership
\* event: nothing, an event whose unsigned holds invite_room_state, or one
\* whose unsigned does not
InviteAnswers(event_id) ==
    {NoInvite,
     [event_id |-> event_id, unsigned |-> <<"invite_room_state", <<"invite_state", event_id>>>>],
     [event_id |-> event_id, unsigned |-> << >>]}

\* lines 222-234: a room the user has not been in
HandleNoPresence ==
    /\ pc = "room"
    /\ index <= Len(rooms)
    /\ Room.room_id \notin rooms_user_has_been_in
    /\ LET forgot == Call("did_forget", Room.room_id, None, FALSE)
       IN  IF Room.membership = "invite"
           THEN \E invite \in InviteAnswers(Room.event_id) :
                  LET fetch == Call("get_event", Room.room_id, Room.event_id, invite)
                  IN  IF invite = NoInvite
                      THEN /\ trace' = trace \o <<forgot, fetch>>
                           /\ index' = index + 1
                           /\ UNCHANGED << pc, ret >>
                      ELSE IF invite.unsigned = << >>
                      THEN \* invite.unsigned["invite_room_state"] raises KeyError
                           /\ trace' = trace \o <<forgot, fetch>>
                           /\ pc' = "failed"
                           /\ ret' = Raises("KeyError")
                           /\ UNCHANGED index
                      ELSE /\ trace' = trace \o
                                <<forgot, fetch,
                                  Call("write_invite", Room.room_id, invite,
                                       invite.unsigned[2])>>
                           /\ index' = index + 1
                           /\ UNCHANGED << pc, ret >>
           ELSE /\ trace' = Append(trace, forgot)
                /\ index' = index + 1
                /\ UNCHANGED << pc, ret >>
    /\ UNCHANGED << call, rooms, rooms_user_has_been_in, from_key, to_key,
                    trackingVars, extremities, store_events >>

TrackingState ==
    [written_events |-> written_events,
     event_to_unseen_prevs |-> event_to_unseen_prevs,
     unseen_to_child_events |-> unseen_to_child_events,
     key_error |-> FALSE]

\* lines 247-260: the tracking state a room starts with
FreshTracking_LeftFromLastRoom == TrackingState

FreshTracking ==
    [written_events |-> {},
     event_to_unseen_prevs |-> << >>,
     unseen_to_child_events |-> {},
     key_error |-> FALSE]

\* lines 239-242: `stream_ordering`, given the record and the store's
\* current maximum
StreamOrderingBound_AlwaysMax(room, max_stream_ordering) == max_stream_ordering

StreamOrderingBound(room, max_stream_ordering) ==
    IF room.membership = "join"
    THEN max_stream_ordering
    ELSE room.stream_ordering

\* lines 236-260: the bounds and the fresh tracking state of a room the user
\* has been in
BeginTimeline ==
    /\ pc = "room"
    /\ index <= Len(rooms)
    /\ Room.room_id \in rooms_user_has_been_in
    /\ LET forgot == Call("did_forget", Room.room_id, None, FALSE)
       IN  /\ to_key' = RoomStreamTokenStr(<< >>, StreamOrderingBound(Room, MaxEvents))
           /\ IF Room.membership = "join"
              THEN trace' = trace \o
                      <<forgot, Call("get_room_max_stream_ordering", Room.room_id,
                                     None, MaxEvents)>>
              ELSE trace' = Append(trace, forgot)
    /\ from_key' = RoomStreamTokenStr(<<0>>, 0)
    /\ written_events' = FreshTracking.written_events
    /\ event_to_unseen_prevs' = FreshTracking.event_to_unseen_prevs
    /\ unseen_to_child_events' = FreshTracking.unseen_to_child_events
    /\ pc' = "page"
    /\ UNCHANGED << call, rooms, rooms_user_has_been_in, index, extremities,
                    ret, store_events >>

\* line 274: `events` after filter_events_for_client, given the page and
\* the filter's answer
FilteredEvents_Unfiltered(page, visible) == page

FilteredEvents(page, visible) == visible

\* lines 266-276: the external calls of one turn of the while loop, given
\* the tracking state the turn ends with
PageCalls_StateInLoop(room_id, from, to, page, visible, st) ==
    LET ext == Extremities(st.event_to_unseen_prevs)
    IN  <<Call("paginate_room_events", room_id, <<from, to>>, page),
          Call("filter_events_for_client", room_id, page, visible),
          Call("write_events", room_id, FilteredEvents(page, visible), None)>>
        \o [i \in 1..Len(ext) |-> Call("write_state", room_id, ext[i], StateAt(ext[i]))]

PageCalls(room_id, from, to, page, visible, st) ==
    <<Call("paginate_room_events", room_id, <<from, to>>, page),
      Call("filter_events_for_client", room_id, page, visible),
      Call("write_events", room_id, FilteredEvents(page, visible), None)>>

\* line 272: `from_key` after a non-empty page
NextFromKey_AfterLastVisible(from, page, visible) ==
    IF visible = << >> THEN from ELSE After(visible[Len(visible)])

NextFromKey(from, page, visible) == After(page[Len(page)])

\* lines 269-270: where the while loop goes after a page
AfterPage_ShortPageEnds(page) ==
    IF Len(page) < PageLimit THEN "state" ELSE "page"

AfterPage(page) ==
    IF page = << >> THEN "state" ELSE "page"

\* lines 266-295: one turn of the while loop on a non-empty page
FetchPage ==
    /\ pc = "page"
    /\ \E page \in PageIds(Room.room_id, from_key, to_key) :
       \E prevs \in PagePrevs(page) :
       \E visible \in SubSeqs(page) :
          LET evs == [e \in EventIds |->
                        IF e \in DOMAIN prevs
                        THEN [room_id |-> Room.room_id, prev_event_ids |-> prevs[e]]
                        ELSE store_events[e]]
              st == UpdateTracking(TrackingState, FilteredEvents(page, visible),
                                   [e \in EventIds |-> evs[e].prev_event_ids])
          IN  /\ IsDag(evs)
              /\ store_events' = evs
              /\ from_key' = NextFromKey(from_key, page, visible)
              /\ trace' = trace \o
                    PageCalls(Room.room_id, from_key, to_key, page, visible, st)
              /\ written_events' = st.written_events
              /\ event_to_unseen_prevs' = st.event_to_unseen_prevs
              /\ unseen_to_child_events' = st.unseen_to_child_events
              /\ IF st.key_error
                 THEN pc' = "failed" /\ ret' = Raises("KeyError")
                 ELSE pc' = AfterPage(page) /\ UNCHANGED ret
    /\ UNCHANGED << call, rooms, rooms_user_has_been_in, index, to_key, extremities >>

\* lines 266-270, 302-306: the empty page ends the loop
LastPage ==
    /\ pc = "page"
    /\ trace' = Append(trace, Call("paginate_room_events", Room.room_id,
                                   <<from_key, to_key>>, << >>))
    /\ extremities' = Extremities(event_to_unseen_prevs)
    /\ pc' = AfterPage(<< >>)
    /\ UNCHANGED << call, rooms, rooms_user_has_been_in, index, from_key, to_key,
                    trackingVars, ret, store_events >>

\* lines 308-309: the extremity is passed over
SkipExtremity_Inverted(unseen_prevs) == unseen_prevs # {}

SkipExtremity(unseen_prevs) == unseen_prevs = {}

\* lines 307-311: the state at the next extremity
WriteState ==
    /\ pc = "state"
    /\ extremities # << >>
    /\ LET event_id == Head(extremities)
       IN  IF SkipExtremity(DictGet(event_to_unseen_prevs, event_id))
           THEN UNCHANGED trace
           ELSE trace' = trace \o
                    <<Call("get_state_for_event", Room.room_id, event_id, StateAt(event_id)),
                      Call("write_state", Room.room_id, event_id, StateAt(event_id))>>
    /\ extremities' = Tail(extremities)
    /\ UNCHANGED << call, pc, rooms, rooms_user_has_been_in, index, from_key, to_key,
                    trackingVars, ret, store_events >>

\* line 210: the next turn of the for loop
NextRoom ==
    /\ pc = "state"
    /\ extremities = << >>
    /\ index' = index + 1
    /\ pc' = "room"
    /\ UNCHANGED << call, rooms, rooms_user_has_been_in, from_key, to_key,
                    trackingVars, extremities, trace, ret, store_events >>

\* line 313
Finish_DropsResult ==
    /\ pc = "room"
    /\ index > Len(rooms)
    /\ \E r \in FinishedValues :
          /\ trace' = Append(trace, Call("finished", None, None, r))
          /\ ret' = Returns(None)
    /\ pc' = "done"
    /\ UNCHANGED << call, rooms, rooms_user_has_been_in, index, from_key, to_key,
                    trackingVars, extremities, store_events >>

Finish ==
    /\ pc = "room"
    /\ index > Len(rooms)
    /\ \E r \in FinishedValues :
          /\ trace' = Append(trace, Call("finished", None, None, r))
          /\ ret' = Returns(r)
    /\ pc' = "done"
    /\ UNCHANGED << call, rooms, rooms_user_has_been_in, index, from_key, to_key,
                    trackingVars, extremities, store_events >>

\* a fetch from the store or the filter raises: the exception leaves
\* export_user_data
FetchFails_FinishesAnyway ==
    /\ \/ pc = "start"
       \/ pc = "room" /\ index <= Len(rooms)
       \/ pc = "page"
       \/ pc = "state" /\ extremities # << >>
    /\ pc' = "failed"
    /\ ret' = Raises("StoreError")
    /\ trace' = Append(trace, Call("finished", None, None, "R1"))
    /\ UNCHANGED << call, rooms, rooms_user_has_been_in, index, from_key, to_key,
                    trackingVars, extremities, store_events >>

FetchFails ==
    /\ \/ pc = "start"
       \/ pc = "room" /\ index <= Len(rooms)
       \/ pc = "page"
       \/ pc = "state" /\ extremities # << >>
    /\ pc' = "failed"
    /\ ret' = Raises("StoreError")
    /\ UNCHANGED << call, rooms, rooms_user_has_been_in, index, from_key, to_key,
                    trackingVars, extremities, trace, store_events >>

Next ==
    \/ StartExport
    \/ SkipForgotten
    \/ HandleNoPresence
    \/ BeginTimeline
    \/ FetchPage
    \/ LastPage
    \/ WriteState
    \/ NextRoom
    \/ Finish
    \/ FetchFails

Spec == Init /\ [][Next]_vars

\* where the coroutine stands; every step of Next changes it
position == << pc, index, Len(trace), Len(extremities) >>

\* the reactor resumes the coroutine at every `yield`: each awaited call
\* returns or raises, so a step that can be taken is taken
FairSpec == Spec /\ WF_position(Next)

(***************************************************************************)
(* Properties of the token handlers                                        *)
(***************************************************************************)

IsValidateCall == call.op = "validate_admin_token"

\* `Bearer <token>`: the literal, one space, and no other space
BearerShaped(h) ==
    /\ Len(h) >= 2
    /\ h[1] = "Bearer"
    /\ h[2] = " "
    /\ \A i \in 3..Len(h) : h[i] # " "

TokenOf(h) == SubSeq(h, 3, Len(h))

\* one well-formed header whose token is text the store can be asked about
CarriesToken ==
    /\ IsValidateCall
    /\ Len(call.request.headers) = 1
    /\ BearerShaped(call.request.headers[1])
    /\ IsAscii(TokenOf(call.request.headers[1]))

\* the store was asked exactly once, about the token of the header
AskedStore ==
    /\ Len(call.store_calls) = 1
    /\ call.store_calls[1].op = "get_permissions_for_token"
    /\ call.store_calls[1].token = TokenOf(call.request.headers[1])

AnsweredRules == call.store_calls[1].result

AnsweredFlag ==
    AnsweredRules.permissions[call.permission_code][call.request.method]

\* C2: with a permission code, one well-formed Bearer header and a known
\* token, validate_admin_token returns true exactly when
\* permissions[code][action] is true, and raises Forbidden otherwise.
C2_KnownTokenDecidedByFlag ==
    (CarriesToken /\ call.permission_code # None)
        => /\ AskedStore
           /\ (AnsweredRules.token_state = "EXISTS")
                 => /\ (call.outcome = Returns("True")) <=> (AnsweredFlag = TRUE)
                    /\ (AnsweredFlag = FALSE) => (call.outcome = Raises("Forbidden"))

C2_Witness ==
    /\ CarriesToken
    /\ call.permission_code = "c1"
    /\ call.request.method = "PUT"
    /\ AskedStore
    /\ AnsweredRules.token_state = "EXISTS"
    /\ AnsweredRules.permissions["c1"]["PUT"] = TRUE
    /\ AnsweredRules.permissions["c1"]["GET"] = FALSE
    /\ AnsweredRules.permissions["c2"]["PUT"] = FALSE
    /\ call.outcome = Returns("True")

\* C3: a token whose state is NON_EXISTANT, validated with raise_if_missing
\* true, is refused with Forbidden whatever ruleset the store returned.
C3_UnknownTokenForbidden ==
    (/\ CarriesToken
     /\ call.permission_code # None
     /\ call.raise_if_missing
     /\ AskedStore
     /\ AnsweredRules.token_state = "NON_EXISTANT")
        => call.outcome = Raises("Forbidden")

\* C4: with a permission code, a request with no Authorization header, more
\* than one, or one that is not `Bearer <token>` raises
\* MissingClientTokenError and the store is not asked.
C4_BadHeaderMissingCredential ==
    (/\ IsValidateCall
     /\ call.permission_code # None
     /\ \/ Len(call.request.headers) = 0
        \/ Len(call.request.headers) > 1
        \/ ~BearerShaped(call.request.headers[1]))
        => /\ call.outcome = Raises("MissingClientTokenError")
           /\ call.store_calls = << >>

C4_Witness ==
    /\ IsValidateCall
    /\ call.permission_code = "c2"
    /\ call.request.headers = << <<"Bearer", " ", "t", " ">> >>
    /\ call.outcome = Raises("MissingClientTokenError")
    /\ call.store_calls = << >>

\* C5: without a permission code validate_admin_token raises Forbidden for
\* every request and every raise_if_missing, and the store is not asked.
C5_NoPermissionCodeForbidden ==
    (IsValidateCall /\ call.permission_code = None)
        => /\ call.outcome = Raises("Forbidden")
           /\ call.store_calls = << >>

C5_Witness ==
    /\ IsValidateCall
    /\ call.permission_code = None
    /\ call.request.headers = << >>
    /\ ~call.raise_if_missing
    /\ call.outcome = Raises("Forbidden")

\* C6: with a permission code, a well-formed header, a NON_EXISTANT token and
\* raise_if_missing false, validate_admin_token returns false and raises
\* nothing, whatever the returned permissions hold.
C6_UnknownTokenReturnsFalse ==
    (/\ CarriesToken
     /\ call.permission_code # None
     /\ ~call.raise_if_missing
     /\ AskedStore
     /\ AnsweredRules.token_state = "NON_EXISTANT")
        => call.outcome = Returns("False")

C6_Witness ==
    /\ CarriesToken
    /\ call.permission_code = "c1"
    /\ ~call.raise_if_missing
    /\ AskedStore
    /\ AnsweredRules.token_state = "NON_EXISTANT"
    /\ AnsweredFlag = TRUE
    /\ call.outcome = Returns("False")

\* C7: set_permission_for_token raises ValueError without calling the store
\* for an action outside GET, PUT, POST, DELETE; otherwise it calls the store
\* once with the arguments it was given and returns the store's result.
C7_SetPermissionValidatesAction ==
    (call.op = "set_permission_for_token")
        => IF call.action \in {"GET", "PUT", "POST", "DELETE"}
           THEN /\ Len(call.store_calls) = 1
                /\ call.store_calls[1].op = "set_permission_for_token"
                /\ call.store_calls[1].admin_token = call.admin_token
                /\ call.store_calls[1].endpoint = call.endpoint
                /\ call.store_calls[1].action = call.action
                /\ call.store_calls[1].allowed = call.allowed
                /\ call.outcome = Returns(call.store_calls[1].result)
           ELSE /\ call.outcome = Raises("ValueError")
                /\ call.store_calls = << >>

C7_Witness ==
    /\ call.op = "set_permission_for_token"
    /\ call.action = "PATCH"
    /\ call.outcome = Raises("ValueError")
    /\ call.store_calls = << >>

(***************************************************************************)
(* Properties of export_user_data                                          *)
(***************************************************************************)

TraceIdx == 1..Len(trace)

Elems(s) == {s[i] : i \in 1..Len(s)}

\* the ids passed to write_events for the room
Delivered(room_id) ==
    UNION {Elems(trace[i].arg) :
             i \in {j \in TraceIdx : trace[j].op = "write_events"
                                     /\ trace[j].room_id = room_id}}

\* the ids write_state was called for in the room
StateWritten(room_id) ==
    {trace[i].arg :
        i \in {j \in TraceIdx : trace[j].op = "write_state"
                                /\ trace[j].room_id = room_id}}

\* the ids the filter was given and did not return, for the room
Rejected(room_id) ==
    UNION {Elems(trace[i].arg) \ Elems(trace[i].result) :
             i \in {j \in TraceIdx : trace[j].op = "filter_events_for_client"
                                     /\ trace[j].room_id = room_id}}

\* the room at `index` has had all its write_state calls
RoomComplete == pc = "state" /\ extremities = << >>

\* C1: when a room with timeline presence is complete, write_state has been
\* called for exactly the delivered events that have a predecessor which
\* was not delivered by the end of the room's pagination.
C1_ExtremitiesAreUnresolvedEvents ==
    RoomComplete
        => /\ written_events = Delivered(Room.room_id)
           /\ StateWritten(Room.room_id) =
                {e \in Delivered(Room.room_id) :
                    ~(store_events[e].prev_event_ids \subseteq Delivered(Room.room_id))}

\* an event delivered before its only predecessor is no extremity
C1_Witness ==
    /\ RoomComplete
    /\ Delivered(Room.room_id) = {1, 2}
    /\ store_events[1].prev_event_ids = {2}
    /\ StateWritten(Room.room_id) = {}

\* C8: every write_events call passes exactly what the filter returned for
\* the page just fetched, a subsequence of that page; no event the filter
\* dropped is passed, and written_events holds only ids the filter returned.
C8_OnlyFilteredEventsWritten ==
    /\ \A i \in TraceIdx :
          trace[i].op = "write_events"
            => /\ i > 2
               /\ trace[i - 1].op = "filter_events_for_client"
               /\ trace[i - 2].op = "paginate_room_events"
               /\ trace[i - 1].room_id = trace[i].room_id
               /\ trace[i - 1].arg = trace[i - 2].result
               /\ trace[i].arg = trace[i - 1].result
               /\ trace[i].arg \in SubSeqs(trace[i - 2].result)
    /\ \A r \in RoomIds : Delivered(r) \cap Rejected(r) = {}
    /\ pc \in {"page", "state"}
          => written_events \cap Rejected(Room.room_id) = {}

\* a page of two events of which the filter dropped the first
C8_Witness ==
    \E i \in TraceIdx :
        /\ trace[i].op = "write_events"
        /\ trace[i].arg = <<2>>
        /\ trace[i - 1].arg = <<1, 2>>
        /\ written_events = {2}

IsRoomSinkCall(c) == c.op \in {"write_events", "write_state", "write_invite"}

SinkCalls == SelectSeq(trace, IsRoomSinkCall)

PositionOf(room_id) == CHOOSE i \in 1..Len(rooms) : rooms[i].room_id = room_id

\* C9: in the writer calls of a run, the calls for a room earlier in the
\* membership list all come before the calls for a later room, and within a
\* room every write_events comes before every write_state.
C9_SinkCallOrder ==
    \A i, j \in 1..Len(SinkCalls) :
        i < j =>
            /\ PositionOf(SinkCalls[i].room_id) <= PositionOf(SinkCalls[j].room_id)
            /\ SinkCalls[i].room_id = SinkCalls[j].room_id
                 => ~(SinkCalls[i].op = "write_state" /\ SinkCalls[j].op = "write_events")

\* the first room has events and an extremity, the second room has events
C9_Witness ==
    /\ pc = "done"
    /\ Len(rooms) = 2
    /\ Delivered(rooms[1].room_id) # {}
    /\ StateWritten(rooms[1].room_id) # {}
    /\ Delivered(rooms[2].room_id) # {}

FinishedIdx == {i \in TraceIdx : trace[i].op = "finished"}

\* C10: a run that completed called finished() once, as its last call, and
\* returned what finished() returned; finished() is called in no other run.
C10_FinishedOnceLastAndReturned ==
    /\ pc = "done"
          => /\ FinishedIdx = {Len(trace)}
             /\ ret = Returns(trace[Len(trace)].result)
    /\ pc # "done" => FinishedIdx = {}

\* a completed run with an invite and an extremity written before finished()
C10_Witness ==
    /\ pc = "done"
    /\ \E i \in TraceIdx : trace[i].op = "write_invite"
    /\ \E i \in TraceIdx : trace[i].op = "write_state"
    /\ ret = Returns("R2")

\* the trace entries of the given kind for the room
CallsOf(op, room_id) ==
    {i \in TraceIdx : trace[i].op = op /\ trace[i].room_id = room_id}

\* C11: once did_forget has answered true for a room, the run holds no other
\* call for that room - no writer call and no event, page, invite or state
\* fetch - whatever its membership and presence, and the loop has moved on
\* to the next room.
C11_ForgottenRoomSkipped ==
    \A i \in TraceIdx :
        (trace[i].op = "did_forget" /\ trace[i].result = TRUE)
            => /\ \A j \in TraceIdx \ {i} : trace[j].room_id # trace[i].room_id
               /\ index > PositionOf(trace[i].room_id)
               /\ pc \in {"room", "page", "state", "done", "failed"}

\* a forgotten joined room with timeline presence, followed by a room whose
\* events were exported
C11_Witness ==
    /\ pc = "done"
    /\ Len(rooms) = 2
    /\ rooms[1].membership = "join"
    /\ rooms[1].room_id \in rooms_user_has_been_in
    /\ \E i \in CallsOf("did_forget", rooms[1].room_id) : trace[i].result = TRUE
    /\ Delivered(rooms[2].room_id) # {}

\* the get_event calls that returned the room's invite event
InvitesFetched(room_id) ==
    {i \in CallsOf("get_event", room_id) : trace[i].result # NoInvite}

\* C12: for a room that is not forgotten and has no timeline presence, an
\* invite membership whose invite event exists gives exactly one
\* write_invite call, with that event and its invite_room_state, and no
\* write_events or write_state call; every other case gives no writer call.
C12_NoPresenceRoomWritesInviteOnly ==
    \A i \in TraceIdx :
        (/\ trace[i].op = "did_forget"
         /\ trace[i].result = FALSE
         /\ trace[i].room_id \notin rooms_user_has_been_in)
            => LET r == trace[i].room_id
                   invites == CallsOf("write_invite", r)
               IN  /\ CallsOf("write_events", r) = {}
                   /\ CallsOf("write_state", r) = {}
                   /\ IF rooms[PositionOf(r)].membership = "invite"
                         /\ InvitesFetched(r) # {}
                      THEN /\ Cardinality(invites) = 1
                           /\ \A j \in invites :
                                 /\ \E k \in InvitesFetched(r) :
                                       trace[j].arg = trace[k].result
                                 /\ trace[j].arg.unsigned =
                                       <<"invite_room_state", trace[j].result>>
                      ELSE invites = {}

\* C13: in the room being exported, a delivered event e2 with a predecessor
\* e1 that pagination returned and the filter dropped: e1 is not in
\* written_events, e1 stays in event_to_unseen_prevs[e2], and once the room
\* is complete write_state has been called for e2 with the state at e2.
C13_FilteredPredecessorMakesExtremity ==
    pc \in {"page", "state"}
        => \A e2 \in Delivered(Room.room_id) :
           \A e1 \in store_events[e2].prev_event_ids \cap Rejected(Room.room_id) :
              /\ e1 \notin written_events
              /\ e2 \in DictKeys(event_to_unseen_prevs)
              /\ e1 \in DictGet(event_to_unseen_prevs, e2)
              /\ RoomComplete
                    => \E j \in CallsOf("write_state", Room.room_id) :
                          /\ trace[j].arg = e2
                          /\ trace[j].result = StateAt(e2)

\* one page of two events: the filter dropped the first, the second names it
\* as its predecessor
C13_Witness ==
    /\ RoomComplete
    /\ Rejected(Room.room_id) = {1}
    /\ Delivered(Room.room_id) = {2}
    /\ store_events[2].prev_event_ids = {1}
    /\ StateWritten(Room.room_id) = {2}

\* the page fetches made for the room
Pages(room_id) == CallsOf("paginate_room_events", room_id)

\* the loop of a room ends on the empty page and on no other
LoopEndsOnEmptyPage ==
    /\ \A r \in RoomIds : \A i \in Pages(r) :
          IF trace[i].result = << >>
          THEN \A j \in TraceIdx :
                  j > i => ~(/\ trace[j].room_id = r
                             /\ trace[j].op \in {"paginate_room_events",
                                                 "filter_events_for_client",
                                                 "write_events"})
          ELSE \/ \E j \in Pages(r) : j > i
               \/ pc = "page" /\ Room.room_id = r
               \/ pc = "failed"
    /\ pc = "state"
          => \E i \in Pages(Room.room_id) : trace[i].result = << >>

Latest(S) == CHOOSE i \in S : \A j \in S : j <= i

\* C15: the first fetch of a room starts at token (0, 0) and every later
\* fetch starts right after the last event of the page fetched before it,
\* as the store returned it and whatever the filter kept; a non-empty page
\* is followed by another fetch even when the filter kept nothing of it,
\* and no event is returned by two fetches of the room.
C15_CursorFollowsUnfilteredPage ==
    \A r \in RoomIds : \A i \in Pages(r) :
        LET earlier == {j \in Pages(r) : j < i}
            page == trace[i].result
        IN  /\ IF earlier = {}
               THEN trace[i].arg[1] = RoomStreamTokenStr(<<0>>, 0)
               ELSE LET before == trace[Latest(earlier)].result
                    IN  /\ before # << >>
                        /\ trace[i].arg[1] = After(before[Len(before)])
            /\ \A j \in earlier : Elems(trace[j].result) \cap Elems(page) = {}
            /\ page # << >>
                  => \/ \E j \in Pages(r) : j > i
                     \/ pc = "failed"
                     \/ /\ pc = "page"
                        /\ Room.room_id = r
                        /\ from_key = After(page[Len(page)])

\* a page whose only event the filter dropped, then a page that was
\* delivered, then the empty page
C15_Witness ==
    \E r \in RoomIds : \E i \in Pages(r) :
        /\ i + 5 <= Len(trace)
        /\ trace[i].result = <<1>>
        /\ trace[i + 1].result = << >>
        /\ trace[i + 3].op = "paginate_room_events"
        /\ trace[i + 3].arg[1] = After(1)
        /\ trace[i + 3].result = <<2>>
        /\ trace[i + 5].arg = <<2>>
        /\ pc = "state"

\* the calls that read the store's maximum stream position for the room
MaxReads(room_id) == CallsOf("get_room_max_stream_ordering", room_id)

\* C16: every page fetch of a room carries the same `to` key, fixed before
\* the first fetch: the store's maximum stream position, read once, for a
\* join membership, and the record's stream_ordering for any other; for
\* those other memberships no event beyond the record's stream_ordering is
\* passed to write_events.
C16_UpperBoundFixedPerRoom ==
    \A k \in 1..Len(rooms) :
        LET r == rooms[k].room_id
        IN  Pages(r) # {}
              => /\ IF rooms[k].membership = "join"
                    THEN /\ Cardinality(MaxReads(r)) = 1
                         /\ \A m \in MaxReads(r) : \A i \in Pages(r) :
                               /\ m < i
                               /\ trace[i].arg[2] =
                                     RoomStreamTokenStr(<< >>, trace[m].result)
                    ELSE /\ MaxReads(r) = {}
                         /\ \A i \in Pages(r) :
                               trace[i].arg[2] =
                                  RoomStreamTokenStr(<< >>, rooms[k].stream_ordering)
                         /\ \A e \in Delivered(r) : e <= rooms[k].stream_ordering
                 /\ (pc = "page" /\ index = k)
                       => to_key = trace[Latest(Pages(r))].arg[2]

\* a room the user left at stream position MaxEvents - 1: its event at
\* that position was delivered and the loop ended, below the store's maximum
C16_Witness ==
    /\ RoomComplete
    /\ Room.membership = "leave"
    /\ Room.stream_ordering < MaxEvents
    /\ Room.stream_ordering \in Delivered(Room.room_id)
    /\ Cardinality(Pages(Room.room_id)) >= 2

\* event_to_unseen_prevs as the set of <<unseen, child>> pairs it holds
UnseenPairs(e2u) ==
    UNION {{<<u, e2u[i][1]>> : u \in e2u[i][2]} : i \in 1..Len(e2u)}

\* C17: the two tracking maps hold the same relation: u is in
\* event_to_unseen_prevs[e] exactly when e is in unseen_to_child_events[u].
\* The loop of a page of one event ends after that event, so the states
\* between two events of a page are among those checked.
C17_TrackingMapsMirrorEachOther ==
    UnseenPairs(event_to_unseen_prevs) = unseen_to_child_events

\* event 1 was delivered before its predecessor 2: the pair was entered in
\* both maps and taken out of both when 2 was delivered
C17_Witness ==
    /\ pc = "page"
    /\ written_events = {1, 2}
    /\ store_events[1].prev_event_ids = {2}
    /\ event_to_unseen_prevs = << <<1, {}>> >>
    /\ unseen_to_child_events = {}
    /\ Cardinality(Pages(Room.room_id)) = 2

\* C18: the three tracking variables are empty when a room's first page is
\* about to be fetched, and while the room is exported they speak of that
\* room's deliveries only: written_events is what was delivered for the
\* room, and each entry of event_to_unseen_prevs is the event's predecessors
\* less the room's own deliveries, whatever earlier rooms delivered.
C18_TrackingStateFreshPerRoom ==
    pc \in {"page", "state"}
        => /\ Pages(Room.room_id) = {}
                => /\ written_events = {}
                   /\ event_to_unseen_prevs = << >>
                   /\ unseen_to_child_events = {}
           /\ written_events = Delivered(Room.room_id)
           /\ DictKeys(event_to_unseen_prevs) \subseteq Delivered(Room.room_id)
           /\ \A e \in DictKeys(event_to_unseen_prevs) :
                 DictGet(event_to_unseen_prevs, e) =
                    store_events[e].prev_event_ids \ Delivered(Room.room_id)
           /\ {q[1] : q \in unseen_to_child_events} \cap Delivered(Room.room_id) = {}

\* event 1 was delivered for the first room; the second room's event 2 has
\* it as predecessor and is an extremity all the same
C18_Witness ==
    /\ RoomComplete
    /\ index = 2
    /\ Delivered(rooms[1].room_id) = {1}
    /\ Delivered(rooms[2].room_id) = {2}
    /\ store_events[2].prev_event_ids = {1}
    /\ StateWritten(rooms[2].room_id) = {2}

\* the steps in which every awaited call returns
Proceeds ==
    \/ StartExport
    \/ SkipForgotten
    \/ HandleNoPresence
    \/ BeginTimeline
    \/ FetchPage
    \/ LastPage
    \/ WriteState
    \/ NextRoom
    \/ Finish

IsPrefix(s, t) == Len(s) <= Len(t) /\ SubSeq(t, 1, Len(s)) = s

\* C19: the step in which a fetch fails ends the run with the store's
\* exception, makes no call on the writer and is taken where the run could
\* also have gone on; every step leaves the writer calls made so far as a
\* prefix of those made after it, so what the writer received before the
\* failure is a prefix of what the same run receives without the failure,
\* and finished() is not among it.
C19_FailureLeavesSinkPrefix ==
    [][/\ IsPrefix(SinkCalls, SinkCalls')
       /\ ret' = Raises("StoreError")
             => /\ pc' = "failed"
                /\ SinkCalls' = SinkCalls
                /\ FinishedIdx' = {}
                /\ ENABLED Proceeds]_vars

\* the state fetch failed after the room's events had been delivered
C19_Witness ==
    /\ pc = "failed"
    /\ ret = Raises("StoreError")
    /\ extremities # << >>
    /\ Len(SinkCalls) > 0
    /\ \A i \in 1..Len(SinkCalls) : SinkCalls[i].op = "write_events"

\* C20: while a room is exported no unseen predecessor is an event already
\* written: every set in event_to_unseen_prevs is disjoint from
\* written_events, no key of unseen_to_child_events is in written_events
\* and every key of event_to_unseen_prevs is; write_state is called at most
\* once for an event of a room, and only after a write_events call of the
\* room that passed it.
C20_NoUnseenEventIsWritten ==
    /\ pc \in {"page", "state"}
          => /\ \A i \in 1..Len(event_to_unseen_prevs) :
                   /\ event_to_unseen_prevs[i][2] \cap written_events = {}
                   /\ event_to_unseen_prevs[i][1] \in written_events
             /\ \A q \in unseen_to_child_events : q[1] \notin written_events
    /\ \A r \in RoomIds : \A i \in CallsOf("write_state", r) :
          /\ \A j \in CallsOf("write_state", r) : trace[j].arg = trace[i].arg => j = i
          /\ \E j \in CallsOf("write_events", r) :
                j < i /\ trace[i].arg \in Elems(trace[j].arg)

\* event 2 was delivered after its predecessor 1: it got no entry, and the
\* room has no extremity
C20_Witness ==
    /\ RoomComplete
    /\ written_events = {1, 2}
    /\ store_events[2].prev_event_ids = {1}
    /\ event_to_unseen_prevs = << >>
    /\ StateWritten(Room.room_id) = {}

====
